---- MODULE Spec2Model ----
(***************************************************************************)
(* State-machine model of the Gadgets-and-Those discovery chat.            *)
(*                                                                         *)
(* Two builds of the chat component exist in the sources and both are      *)
(* modelled; impl selects the build a behaviour runs:                      *)
(*   "fetch" : src/components/ChatInterface.tsx, every turn is a POST to   *)
(*             the serverless function src/netlify/functions/gemini.ts     *)
(*   "sdk"   : the component kept in src/types.ts (lines 86-516), which    *)
(*             talks to the model SDK directly and has the voice pipeline  *)
(***************************************************************************)
EXTENDS Integers, Sequences, FiniteSets, TLC

\* ------------------------------------------------------------------ bounds
\* What the environment does at most in one behaviour of each specification.
MaxCatalogUpdates == 1    \* Spec: changes of props.products
MaxSubmits == 1           \* Spec: accepted form submissions
RaceCatalogUpdates == 2   \* SpecRace: changes of props.products
RaceSubmits == 2          \* SpecRace: accepted form submissions
VoiceCatalogUpdates == 1  \* SpecVoice: changes of props.products
VoiceSubmits == 1         \* SpecVoice: accepted form submissions
MaxVoiceStarts == 1       \* SpecVoice: entries into voice mode
MaxToolMessages == 1      \* SpecVoice: tool-call messages on the voice channel
AudioStarts == 1          \* SpecAudio: entries into voice mode
MaxAudioMessages == 2     \* SpecAudio: audio / interruption messages on the channel
MaxClock == 2             \* SpecAudio: ticks of the output context's clock
ReopenStarts == 2         \* SpecReopen: entries into voice mode
ReopenAudioMessages == 1  \* SpecReopen: audio / interruption messages on the channel
MaxRanked == 4            \* SpecRank: products in the catalog that is ranked
UplinkStarts == 1         \* SpecUplink: entries into voice mode
UplinkAudioMessages == 1  \* SpecUplink: audio / interruption messages on the channel
MaxFrames == 3            \* SpecUplink: frames the microphone delivers
IdCatalogUpdates == 1     \* SpecIds: changes of props.products
IdVoiceStarts == 1        \* SpecIds: entries into voice mode
IdToolMessages == 1       \* SpecIds: tool-call messages on the voice channel
MaxNow == 2               \* SpecIds: ticks of the millisecond clock

\* ------------------------------------------------------------ value domains
Undefined == "undefined"

\* Product ids of the catalog document; "missing" names no product.
ProductIds == {"p1", "p2"}
Catalogs == {<<>>, <<"p1", "p2">>}

\* What the visitor can have typed into the input box.
InputTexts == {"", " ", " q "}

GreetingFallback == "Hey! Gadget Scout here. What are we optimizing today?"
TurnFallback == "I hit a snag in the comms. What was that again?"

\* String.prototype.trim on the texts above.
Trim(s) ==
  CASE s = " " -> ""
    [] s = " q " -> "q"
    [] OTHER -> s

\* One function call of a model response (hasArgs = FALSE: the call came
\* without an args object).
FnCall(name, hasArgs, productId, reasoning) ==
  [name |-> name, hasArgs |-> hasArgs, productId |-> productId, reasoning |-> reasoning]

RecP1 == FnCall("recommend_product", TRUE, "p1", "r1")
RecP2 == FnCall("recommend_product", TRUE, "p2", "r2")
RecMissing == FnCall("recommend_product", TRUE, "missing", "r3")
RecNoReason == FnCall("recommend_product", TRUE, "p1", Undefined)
RecNoArgs == FnCall("recommend_product", FALSE, Undefined, Undefined)
OtherTool == FnCall("other_tool", TRUE, Undefined, Undefined)

FnCallLists ==
  { <<>>, <<RecP1>>, <<RecMissing>>, <<RecNoReason>>, <<RecNoArgs>>,
    <<OtherTool, RecP1>>, <<RecMissing, RecP2>> }

\* Settlements of chat.sendMessage: a response, or a rejection.
Responses == [ok : {TRUE}, text : {Undefined, "t"}, functionCalls : FnCallLists]
Rejection == [ok |-> FALSE, text |-> Undefined, functionCalls |-> <<>>]
Outcomes == Responses \cup {Rejection}

\* ------------------------------------------------------------------- state
VARIABLES
  impl,            \* which build of the component runs
  apiKey,          \* whether process.env.GEMINI_API_KEY is set for the function
  ranking,         \* the last retrieval: ranker, query, catalog and result
  products,        \* props.products
  messages,        \* useState messages
  inputText,       \* useState inputText
  isTyping,        \* useState isTyping (the busy flag)
  mode,            \* useState mode
  chatSessionRef,  \* chatSessionRef.current: 0 = null, else the handle
  chatsCreated,    \* handles created so far by ai.chats.create
  calls,           \* model calls (sdk) / function requests (fetch) in flight
  issued,          \* calls issued so far; the next call's id is issued + 1
  greetingCalls,   \* greeting calls issued so far
  alerted,         \* whether window.alert has shown its notice
  last,            \* the handler step taken last
  \* what the environment may still do
  updatesLeft, submitsLeft, startsLeft, downlinkLeft,
  \* the voice session (types.ts)
  mounted,         \* the component is mounted
  voice,           \* one record per startVoiceSession call, in call order
  voiceSessionRef, \* voiceSessionRef.current: 0 = null, else the call whose session it is
  audioContextRef, \* audioContextRef.current: 0 = null, else the call whose contexts they are
  isVoiceActive,   \* useState isVoiceActive
  toolCalls,       \* recommend_product calls received on the voice channel
  toolResponses,   \* sendToolResponse calls made
  \* playback (types.ts)
  clock,           \* output.currentTime
  nextStartTime,   \* nextStartTimeRef.current, the playback cursor
  audioSources,    \* audioSourcesRef.current, the live segments
  pending,         \* onmessage handlers suspended in await decodeAudioData, each
                   \* with the interruptions processed when its chunk arrived
  scheduled,       \* the source.start calls made, in order
  arrived,         \* audio chunks received so far
  interruptions,   \* interruption signals processed so far
  stopped,         \* the segments whose source.stop() was called
  \* the uplink (types.ts)
  framesLeft,      \* what the microphone may still deliver
  captured,        \* onaudioprocess events so far
  uplinkQueue,     \* frames whose send waits for the session promise, in order
  sent,            \* the sendRealtimeInput calls made, in order
  \* message ids
  now,             \* Date.now()
  messageIds       \* the id of each message, in the order of messages

cfgVars == <<impl, apiKey, ranking>>
envVars == <<updatesLeft, submitsLeft, startsLeft, downlinkLeft>>
voiceVars ==
  <<mounted, voice, voiceSessionRef, audioContextRef, isVoiceActive, toolCalls, toolResponses>>
audioVars ==
  <<clock, nextStartTime, audioSources, pending, scheduled, arrived, interruptions,
    stopped>>
chatVars ==
  <<products, messages, inputText, isTyping, mode, chatSessionRef, chatsCreated,
    calls, issued, greetingCalls, alerted, last>>

uplinkVars == <<framesLeft, captured, uplinkQueue, sent>>

idVars == <<now, messageIds>>

vars == <<cfgVars, chatVars, envVars, voiceVars, audioVars, uplinkVars, idVars>>

\* ----------------------------------------------------------------- helpers
Message(role, content, recommendation, reason) ==
  [role |-> role, content |-> content, recommendation |-> recommendation, reason |-> reason]

\* A faulty variant of AddMessage, used to test C29: the new list holds the
\* new message only, setMessages([{...}]).
AddMessageReplacing(msgs, role, content, recommendation, reason) ==
  <<Message(role, content, recommendation, reason)>>

\* addMessage: setMessages(prev => [...prev, {...}])
AddMessage(msgs, role, content, recommendation, reason) ==
  Append(msgs, Message(role, content, recommendation, reason))

Range(s) == {s[i] : i \in 1..Len(s)}

\* addMessage gives each message it appends the id Date.now().toString():
\* the messages a handler step appends get the clock reading of the step.
Stamp ==
  /\ messageIds' = messageIds \o [k \in 1..(Len(messages') - Len(messages)) |-> now]
  /\ UNCHANGED now

\* A lookup that trusts any well-formed product id without consulting the
\* catalog: a faulty variant of Find, used to test C6.
FindAny(cat, id) ==
  IF id \in ProductIds THEN id ELSE Undefined

\* products.find(p => p.id === id)
Find(cat, id) ==
  IF \E i \in 1..Len(cat) : cat[i] = id
    THEN cat[CHOOSE i \in 1..Len(cat) : cat[i] = id /\ \A j \in 1..(i - 1) : cat[j] # id]
    ELSE Undefined

\* x || ""
OrEmpty(x) == IF x = Undefined THEN "" ELSE x

Call(id, kind, cat, handle, stage) ==
  [id |-> id, kind |-> kind, products |-> cat, handle |-> handle, stage |-> stage,
   embed |-> "none", chat |-> "none", status |-> 0, text |-> Undefined]

Step(op, c, outcome, pre) ==
  [op |-> op, id |-> c.id, kind |-> c.kind, products |-> c.products,
   outcome |-> outcome, pre |-> pre, embed |-> c.embed, chat |-> c.chat]

NoCall == Call(0, "none", <<>>, 0, "none")
NoStep == Step("none", NoCall, Rejection, 0)

\* processAiResponse: the messages it appends (none or one), or that it threw
\* (reading args.productId of a call without args).
ProcessAiResponse(response, cat) ==
  LET fcs == response.functionCalls
      isRec == Len(fcs) > 0 /\ fcs[1].name = "recommend_product"
      threw == isRec /\ ~fcs[1].hasArgs
      recommendation == IF isRec THEN Find(cat, fcs[1].productId) ELSE Undefined
      reason == IF isRec THEN fcs[1].reasoning ELSE Undefined
      text == OrEmpty(response.text)
  IN  [threw |-> threw,
       msgs |-> IF ~threw /\ (text # "" \/ recommendation # Undefined)
                  THEN <<Message("assistant", text, recommendation, reason)>>
                  ELSE <<>>]


\* ---------------------------------------------------------------- rankers
\* Embedding vectors: two components, small integers.
Vectors == {<<0, 0>>, <<1, 0>>, <<0, 1>>, <<1, 1>>, <<-1, 0>>}

Dot(vecA, vecB) == vecA[1] * vecB[1] + vecA[2] * vecB[2]

\* A faulty variant of CosineSimilarity, used to test C22: a zero magnitude
\* gives the score of identical vectors instead of 0.
CosineSimilarityZeroIsOne(vecA, vecB) ==
  LET dotProduct == Dot(vecA, vecB)
      magA2 == Dot(vecA, vecA)
      magB2 == Dot(vecB, vecB)
  IN  IF magA2 = 0 \/ magB2 = 0
        THEN 4
        ELSE (IF dotProduct < 0 THEN -1 ELSE 1) * ((4 * dotProduct * dotProduct) \div (magA2 * magB2))

\* A faulty variant of CosineSimilarity, used to test C23: the dot product
\* is divided by the squared magnitude of the first vector only.
CosineSimilarityOneSided(vecA, vecB) ==
  LET dotProduct == Dot(vecA, vecB)
      magA2 == Dot(vecA, vecA)
      magB2 == Dot(vecB, vecB)
  IN  IF magA2 = 0 \/ magB2 = 0
        THEN 0
        ELSE (IF dotProduct < 0 THEN -1 ELSE 1) * ((4 * dotProduct * dotProduct) \div (magA2 * magA2))

\* cosineSimilarity. The code divides the dot product by the product of the
\* two magnitudes, in floating point; here the result is kept as the integer
\* 4 * sign(c) * c^2 of that cosine c, which is exact on Vectors and orders
\* the products as c does. A zero magnitude gives 0 without dividing.
CosineSimilarity(vecA, vecB) ==
  LET dotProduct == Dot(vecA, vecB)
      magA2 == Dot(vecA, vecA)
      magB2 == Dot(vecB, vecB)
  IN  IF magA2 = 0 \/ magB2 = 0
        THEN 0
        ELSE (IF dotProduct < 0 THEN -1 ELSE 1) * ((4 * dotProduct * dotProduct) \div (magA2 * magB2))

\* The place Array.prototype.sort gives x among items already sorted by
\* (a, b) => b.score - a.score: after every item whose score is not less
\* (the sort is stable).
InsertDescending(sorted, x) ==
  LET pos == 1 + Cardinality({i \in 1..Len(sorted) : sorted[i].score >= x.score})
  IN  SubSeq(sorted, 1, pos - 1) \o <<x>> \o SubSeq(sorted, pos, Len(sorted))

\* A faulty variant of SortDescending, used to test C20: the comparator is
\* (a, b) => a.score - b.score, so the order is ascending.
RECURSIVE SortAscending(_)
SortAscending(items) ==
  IF items = <<>> THEN <<>>
  ELSE LET x == items[Len(items)]
           sorted == SortAscending(SubSeq(items, 1, Len(items) - 1))
           pos == 1 + Cardinality({i \in 1..Len(sorted) : sorted[i].score <= x.score})
       IN  SubSeq(sorted, 1, pos - 1) \o <<x>> \o SubSeq(sorted, pos, Len(sorted))

\* items.sort((a, b) => b.score - a.score)
RECURSIVE SortDescending(_)
SortDescending(items) ==
  IF items = <<>> THEN <<>>
  ELSE InsertDescending(SortDescending(SubSeq(items, 1, Len(items) - 1)), items[Len(items)])

\* array.slice(0, n)
Slice(items, n) == SubSeq(items, 1, IF Len(items) < n THEN Len(items) ELSE n)

TopK == 3

\* The texts of one request: the prompt, and the document made of the i-th
\* product of the catalog.
PromptText == <<"prompt", 0>>
DocOf(i) == <<"doc", i>>

\* productDocs and allTexts for a catalog of n products.
AllTexts(n) == <<PromptText>> \o [i \in 1..n |-> DocOf(i)]

\* What batchEmbedContents answers for a batch: one embedding per request,
\* in the order of the requests, each any vector.
Answers(n) == [1..(n + 1) -> [values : Vectors]]

\* getEmbeddings after its fetch: result.embeddings.map(e => e.values)
GetEmbeddings(answer) == [k \in 1..Len(answer) |-> answer[k].values]

\* A faulty variant of ProductEmbeddings, used to test C28: the slice starts
\* at the query's embedding, so that every product is scored with the
\* vector of the text before its own document.
ProductEmbeddingsFromStart(embeddings) == SubSeq(embeddings, 1, Len(embeddings) - 1)

\* embeddings.slice(1)
ProductEmbeddings(embeddings) == SubSeq(embeddings, 2, Len(embeddings))

\* productEmbeddings.map(prodEmb => cosineSimilarity(queryEmbedding, prodEmb))
Similarities(queryEmbedding, productEmbeddings) ==
  [i \in 1..Len(productEmbeddings) |->
     CosineSimilarity(queryEmbedding, productEmbeddings[i])]

\* Step 4 of the function: the similarity of every product document to
\* the query, the sort by it and the top K. A product is named by its
\* position in the catalog.
RelevantProducts(queryEmbedding, productEmbeddings) ==
  LET similarities == Similarities(queryEmbedding, productEmbeddings)
      productsWithSimilarity ==
        [i \in 1..Len(productEmbeddings) |-> [index |-> i, score |-> similarities[i]]]
  IN  Slice(SortDescending(productsWithSimilarity), TopK)

\* query.toLowerCase().split(/\s+/).filter(w => w.length > 2) on the
\* queries below.
Queries == {"", "a mic", "usb mic"}
QueryWords(query) ==
  CASE query = "" -> <<>>
    [] query = "a mic" -> <<"mic">>
    [] query = "usb mic" -> <<"usb", "mic">>

\* A product as the lexical ranker sees it: for each field, the query words
\* the field includes.
Words == {"mic", "usb"}
Fields(name, category, features, description) ==
  [name |-> name, category |-> category, features |-> features, description |-> description]
LexicalProducts ==
  { Fields({"mic"}, {}, {}, {}),
    Fields({}, {}, {}, {"mic", "usb"}),
    Fields({}, {"usb"}, {"usb"}, {}),
    Fields({}, {}, {}, {}),
    Fields({"mic"}, {"mic"}, {"usb"}, {"usb"}) }

\* A faulty variant of LexicalScore, used to test C32: the weights of name
\* and category are exchanged.
RECURSIVE LexicalScoreCategoryFirst(_, _)
LexicalScoreCategoryFirst(queryWords, product) ==
  IF queryWords = <<>> THEN 0
  ELSE LET word == Head(queryWords)
       IN  (IF word \in product.name THEN 3 ELSE 0)
             + (IF word \in product.category THEN 5 ELSE 0)
             + (IF word \in product.features THEN 2 ELSE 0)
             + (IF word \in product.description THEN 1 ELSE 0)
             + LexicalScoreCategoryFirst(Tail(queryWords), product)

\* The score the forEach over the query words gives a product.
RECURSIVE LexicalScore(_, _)
LexicalScore(queryWords, product) ==
  IF queryWords = <<>> THEN 0
  ELSE LET word == Head(queryWords)
       IN  (IF word \in product.name THEN 5 ELSE 0)
             + (IF word \in product.category THEN 3 ELSE 0)
             + (IF word \in product.features THEN 2 ELSE 0)
             + (IF word \in product.description THEN 1 ELSE 0)
             + LexicalScore(Tail(queryWords), product)

\* Product ids of a ranked catalog, by the position of the product: slugs
\* ("usb-mic"), or the decimal numbers 1..n in ascending or in descending
\* catalog order ("1", "2", .. or "3", "2", ..). Ids are distinct.
IdSchemes == {"slug", "ascending", "descending"}
IdAt(scheme, i, n) ==
  CASE scheme = "slug" -> [integer |-> FALSE, n |-> i]
    [] scheme = "ascending" -> [integer |-> TRUE, n |-> i]
    [] scheme = "descending" -> [integer |-> TRUE, n |-> n + 1 - i]

WithIds(docs, scheme) ==
  [i \in 1..Len(docs) |->
     [id |-> IdAt(scheme, i, Len(docs)), name |-> docs[i].name,
      category |-> docs[i].category, features |-> docs[i].features,
      description |-> docs[i].description]]

\* Object.keys of an object whose properties were created in the order of
\* entries: the integer-like keys first, in ascending numeric order, then
\* the other keys in creation order.
ObjectKeys(entries) ==
  LET ints == SelectSeq(entries, LAMBDA e : e.id.integer)
      strs == SelectSeq(entries, LAMBDA e : ~e.id.integer)
      ascending ==
        [k \in 1..Len(ints) |->
           CHOOSE e \in Range(ints) :
             Cardinality({f \in Range(ints) : f.id.n < e.id.n}) = k - 1]
  IN  ascending \o strs

\* findRelevantProducts: the ids with a positive score as Object.keys lists
\* them, sorted by score, the first 3, each mapped back to the first product
\* of the catalog with that id (named by its position).
FindRelevantProducts(query, allProducts) ==
  LET queryWords == QueryWords(query)
      all == [i \in 1..Len(allProducts) |->
                [id |-> allProducts[i].id, score |-> LexicalScore(queryWords, allProducts[i])]]
      scores == SelectSeq(all, LAMBDA e : e.score > 0)
      sortedProductIds == SortDescending(ObjectKeys(scores))
      top == Slice(sortedProductIds, 3)
  IN  IF queryWords = <<>> THEN <<>>
      ELSE [k \in 1..Len(top) |->
              [index |-> CHOOSE i \in 1..Len(allProducts) :
                           /\ allProducts[i].id = top[k].id
                           /\ \A j \in 1..(i - 1) : allProducts[j].id # top[k].id,
               score |-> top[k].score]]

\* A prompt sent to the model: whether the text is wrapped in the sentences
\* that announce products, the lines of the product listing in order (the
\* product of each line and the fields the line shows), and the text the
\* visitor typed, which comes after the listing when there is one.
Prompt(framed, listing, text) == [framed |-> framed, listing |-> listing, text |-> text]

Listing(relevantProducts, fields) ==
  [k \in 1..Len(relevantProducts) |->
     [index |-> relevantProducts[k].index, fields |-> fields]]

\* Step 5 of the function: productContext and augmentedPrompt. The template
\* is used whatever the number of retrieved products.
AugmentedPrompt(prompt, relevantProducts) ==
  Prompt(TRUE, Listing(relevantProducts, {"name", "price", "description"}), prompt)

\* handleTextSubmit (types.ts): augmentedUserMessage.
AugmentedUserMessage(userMsg, relevantProducts) ==
  IF Len(relevantProducts) > 0
    THEN Prompt(TRUE, Listing(relevantProducts, {"id", "name", "description"}), userMsg)
    ELSE Prompt(FALSE, <<>>, userMsg)

NoRanking ==
  [kind |-> "none", query |-> <<>>, docs |-> <<>>, scores |-> <<>>, result |-> <<>>,
   prompt |-> Prompt(FALSE, <<>>, ""), batches |-> <<>>, answer |-> <<>>]

\* ------------------------------------------------------------------- Init
\* The component right after it is mounted by App with the initial, empty
\* products array (App.tsx: useState<Product[]>([])).
InitComponent ==
  /\ ranking = NoRanking
  /\ products = <<>>
  /\ messages = <<>>
  /\ inputText = ""
  /\ isTyping = FALSE
  /\ mode = "text"
  /\ chatSessionRef = 0
  /\ chatsCreated = 0
  /\ calls = {}
  /\ issued = 0
  /\ greetingCalls = 0
  /\ alerted = FALSE
  /\ last = NoStep
  /\ mounted = TRUE
  /\ voice = <<>>
  /\ voiceSessionRef = 0
  /\ audioContextRef = 0
  /\ isVoiceActive = FALSE
  /\ toolCalls = 0
  /\ toolResponses = 0
  /\ clock = 0
  /\ nextStartTime = 0
  /\ audioSources = {}
  /\ pending = {}
  /\ scheduled = <<>>
  /\ arrived = 0
  /\ interruptions = 0
  /\ stopped = {}
  /\ captured = 0
  /\ uplinkQueue = <<>>
  /\ sent = <<>>
  /\ now = 0
  /\ messageIds = <<>>

Init ==
  /\ impl \in {"fetch", "sdk"}
  /\ apiKey \in (IF impl = "fetch" THEN BOOLEAN ELSE {TRUE})
  /\ updatesLeft = MaxCatalogUpdates
  /\ submitsLeft = MaxSubmits
  /\ startsLeft = 0
  /\ downlinkLeft = 0
  /\ framesLeft = 0
  /\ InitComponent

\* ------------------------------------------- components/ChatInterface.tsx
\* initChat up to its await: the busy flag is raised and the request sent.
InitChat(cat) ==
  LET c == Call(issued + 1, "greeting", cat, 0, "request")
  IN  /\ isTyping' = TRUE
      /\ calls' = calls \cup {c}
      /\ issued' = issued + 1
      /\ greetingCalls' = greetingCalls + 1
      /\ last' = Step("initChat", c, Rejection, Len(messages))
      /\ UNCHANGED <<messages, chatSessionRef, chatsCreated>>

\* The parent re-renders the component with a new products array; the
\* effect on [products] runs and greets when no message exists yet.
UseEffectProducts(cat) ==
  /\ impl = "fetch"
  /\ mounted
  /\ updatesLeft > 0
  /\ products' = cat
  /\ updatesLeft' = updatesLeft - 1
  /\ IF Len(messages) = 0 /\ Len(cat) > 0
       THEN InitChat(cat)
       ELSE UNCHANGED <<isTyping, calls, issued, greetingCalls, last, messages,
                        chatSessionRef, chatsCreated>>
  /\ UNCHANGED <<cfgVars, uplinkVars, idVars, inputText, mode, alerted, submitsLeft, startsLeft, downlinkLeft,
                 voiceVars, audioVars>>

\* onChange of the input box (rendered in text mode only).
SetInputText(t) ==
  /\ mounted
  /\ mode = "text"
  /\ inputText' = t
  /\ UNCHANGED <<cfgVars, uplinkVars, idVars, products, messages, isTyping, mode, chatSessionRef, chatsCreated,
                 calls, issued, greetingCalls, alerted, last, envVars, voiceVars, audioVars>>

\* handleTextSubmit up to its await.
\* The text handler with the input cleared before the guard: a rejected
\* submission then loses the typed text.
HandleTextSubmitClearsFirst ==
  /\ impl = "fetch"
  /\ mounted
  /\ mode = "text"
  /\ IF Trim(inputText) = "" \/ isTyping
       THEN /\ last' = Step("submitRejected", NoCall, Rejection, Len(messages))
            /\ inputText' = ""
            /\ UNCHANGED <<messages, isTyping, calls, issued, submitsLeft>>
       ELSE LET c == Call(issued + 1, "turn", products, 0, "request")
            IN  /\ submitsLeft > 0
                /\ inputText' = ""
                /\ messages' = AddMessage(messages, "user", Trim(inputText), Undefined, Undefined)
                /\ isTyping' = TRUE
                /\ calls' = calls \cup {c}
                /\ issued' = issued + 1
                /\ submitsLeft' = submitsLeft - 1
                /\ last' = Step("submit", c, Rejection, Len(messages))
  /\ Stamp
  /\ UNCHANGED <<cfgVars, uplinkVars, products, mode, chatSessionRef, chatsCreated, greetingCalls,
                 alerted, updatesLeft, startsLeft, downlinkLeft, voiceVars, audioVars>>

HandleTextSubmit ==
  /\ impl = "fetch"
  /\ mounted
  /\ mode = "text"
  /\ IF Trim(inputText) = "" \/ isTyping
       THEN /\ last' = Step("submitRejected", NoCall, Rejection, Len(messages))
            /\ UNCHANGED <<inputText, messages, isTyping, calls, issued, submitsLeft>>
       ELSE LET c == Call(issued + 1, "turn", products, 0, "request")
            IN  /\ submitsLeft > 0
                /\ inputText' = ""
                /\ messages' = AddMessage(messages, "user", Trim(inputText), Undefined, Undefined)
                /\ isTyping' = TRUE
                /\ calls' = calls \cup {c}
                /\ issued' = issued + 1
                /\ submitsLeft' = submitsLeft - 1
                /\ last' = Step("submit", c, Rejection, Len(messages))
  /\ Stamp
  /\ UNCHANGED <<cfgVars, uplinkVars, products, mode, chatSessionRef, chatsCreated, greetingCalls,
                 alerted, updatesLeft, startsLeft, downlinkLeft, voiceVars, audioVars>>

\* What the awaited fetch gives the component: the function's response, or a
\* rejection when the network fails.
FetchOutcome(c, delivered) ==
  IF delivered /\ c.status = 200
    THEN [ok |-> TRUE, text |-> c.text, functionCalls |-> <<>>]
    ELSE Rejection

\* A faulty variant of FetchSettled, used to test C3: the busy flag is
\* cleared on the success path only, as if the finally block were missing.
FetchSettledNoFinally(c, delivered, fallback) ==
  LET o == FetchOutcome(c, delivered)
  IN  /\ messages' = IF o.ok
                       THEN AddMessage(messages, "assistant", OrEmpty(o.text), Undefined, Undefined)
                       ELSE AddMessage(messages, "assistant", fallback, Undefined, Undefined)
      /\ isTyping' = (IF o.ok THEN FALSE ELSE isTyping)
      /\ calls' = calls \ {c}
      /\ last' = Step(IF o.ok THEN "resolved" ELSE "failed", c, o, Len(messages))

\* The try / catch / finally that follows the awaited fetch: the reply text
\* (or "") is appended on success, the fallback on failure, and the busy
\* flag is cleared.
FetchSettled(c, delivered, fallback) ==
  LET o == FetchOutcome(c, delivered)
  IN  /\ messages' = IF o.ok
                       THEN AddMessage(messages, "assistant", OrEmpty(o.text), Undefined, Undefined)
                       ELSE AddMessage(messages, "assistant", fallback, Undefined, Undefined)
      /\ isTyping' = FALSE
      /\ calls' = calls \ {c}
      /\ last' = Step(IF o.ok THEN "resolved" ELSE "failed", c, o, Len(messages))

\* initChat after its await.
InitChatResume(c, delivered) ==
  /\ impl = "fetch"
  /\ mounted
  /\ c \in calls
  /\ c.kind = "greeting"
  /\ delivered => c.stage = "response"
  /\ FetchSettled(c, delivered, GreetingFallback)
  /\ Stamp
  /\ UNCHANGED <<cfgVars, uplinkVars, products, inputText, mode, chatSessionRef, chatsCreated, issued,
                 greetingCalls, alerted, envVars, voiceVars, audioVars>>

\* handleTextSubmit after its await.
HandleTextSubmitResume(c, delivered) ==
  /\ impl = "fetch"
  /\ mounted
  /\ c \in calls
  /\ c.kind = "turn"
  /\ delivered => c.stage = "response"
  /\ FetchSettled(c, delivered, TurnFallback)
  /\ Stamp
  /\ UNCHANGED <<cfgVars, uplinkVars, products, inputText, mode, chatSessionRef, chatsCreated, issued,
                 greetingCalls, alerted, envVars, voiceVars, audioVars>>

\* startVoiceSession / toggleMode: voice is switched off in this build; the
\* visitor is told so and the mode stays text.
ToggleModeFetch ==
  /\ impl = "fetch"
  /\ mounted
  /\ mode = "text"
  /\ alerted' = TRUE
  /\ mode' = "text"
  /\ UNCHANGED <<cfgVars, uplinkVars, idVars, products, messages, inputText, isTyping, chatSessionRef,
                 chatsCreated, calls, issued, greetingCalls, last, envVars, voiceVars,
                 audioVars>>

\* ------------------------------------------- netlify/functions/gemini.ts
\* A faulty variant of HandlerEmbed, used to test C24: the key is not
\* checked, and the function goes on to the embedding call without one.
HandlerEmbedNoKeyCheck(c, result) ==
  /\ c \in calls
  /\ c.stage = "request"
  /\ calls' = (calls \ {c}) \cup
       { IF result = "readFailed"
           THEN [c EXCEPT !.stage = "response", !.status = 500]
           ELSE IF result = "embedFailed" \/ ~apiKey
             THEN [c EXCEPT !.stage = "response", !.status = 500, !.embed = "failed"]
             ELSE [c EXCEPT !.stage = "chat", !.embed = "ok"] }
  /\ UNCHANGED <<cfgVars, uplinkVars, idVars, products, messages, inputText, isTyping, mode, chatSessionRef,
                 chatsCreated, issued, greetingCalls, alerted, last, envVars, voiceVars,
                 audioVars>>

\* The function from its entry to the result of the batched embedding call:
\* without a key, or when reading the catalog or the embedding call fails,
\* it answers 500; otherwise it goes on to the chat call.
HandlerEmbed(c, result) ==
  /\ c \in calls
  /\ c.stage = "request"
  /\ calls' = (calls \ {c}) \cup
       { IF ~apiKey
           THEN [c EXCEPT !.stage = "response", !.status = 500]
           ELSE IF result = "readFailed"
             THEN [c EXCEPT !.stage = "response", !.status = 500]
             ELSE IF result = "embedFailed"
               THEN [c EXCEPT !.stage = "response", !.status = 500, !.embed = "failed"]
               ELSE [c EXCEPT !.stage = "chat", !.embed = "ok"] }
  /\ UNCHANGED <<cfgVars, uplinkVars, idVars, products, messages, inputText, isTyping, mode, chatSessionRef,
                 chatsCreated, issued, greetingCalls, alerted, last, envVars, voiceVars,
                 audioVars>>

\* A faulty variant of HandlerChat, used to test C25: a failed chat call is
\* made again instead of being answered with 500.
HandlerChatRetry(c, ok, text) ==
  /\ c \in calls
  /\ c.stage = "chat"
  /\ calls' = (calls \ {c}) \cup
       { IF ok
           THEN [c EXCEPT !.stage = "response", !.status = 200, !.chat = "ok", !.text = text]
           ELSE [c EXCEPT !.chat = "failed"] }
  /\ UNCHANGED <<cfgVars, uplinkVars, idVars, products, messages, inputText, isTyping, mode, chatSessionRef,
                 chatsCreated, issued, greetingCalls, alerted, last, envVars, voiceVars,
                 audioVars>>

\* The function from the chat call to its return: 200 with the model's
\* result, or 500 when the call throws or is not OK.
HandlerChat(c, ok, text) ==
  /\ c \in calls
  /\ c.stage = "chat"
  /\ calls' = (calls \ {c}) \cup
       { IF ok
           THEN [c EXCEPT !.stage = "response", !.status = 200, !.chat = "ok", !.text = text]
           ELSE [c EXCEPT !.stage = "response", !.status = 500, !.chat = "failed"] }
  /\ UNCHANGED <<cfgVars, uplinkVars, idVars, products, messages, inputText, isTyping, mode, chatSessionRef,
                 chatsCreated, issued, greetingCalls, alerted, last, envVars, voiceVars,
                 audioVars>>

\* ------------------------------------------------ the component of types.ts
\* initChat up to its await: a new chat handle is created and stored, the
\* busy flag is raised and the greeting is sent over the new handle.
InitChatSdk(cat) ==
  LET c == Call(issued + 1, "greeting", cat, chatsCreated + 1, "model")
  IN  /\ chatsCreated' = chatsCreated + 1
      /\ chatSessionRef' = chatsCreated + 1
      /\ isTyping' = TRUE
      /\ calls' = calls \cup {c}
      /\ issued' = issued + 1
      /\ greetingCalls' = greetingCalls + 1
      /\ last' = Step("initChat", c, Rejection, Len(messages))
      /\ UNCHANGED messages

UseEffectProductsSdk(cat) ==
  /\ impl = "sdk"
  /\ mounted
  /\ updatesLeft > 0
  /\ products' = cat
  /\ updatesLeft' = updatesLeft - 1
  /\ IF Len(messages) = 0 /\ Len(cat) > 0
       THEN InitChatSdk(cat)
       ELSE UNCHANGED <<isTyping, calls, issued, greetingCalls, last, messages,
                        chatSessionRef, chatsCreated>>
  /\ UNCHANGED <<cfgVars, uplinkVars, idVars, inputText, mode, alerted, submitsLeft, startsLeft, downlinkLeft,
                 voiceVars, audioVars>>

\* The try / catch / finally that follows an awaited chat.sendMessage.
\* processAiResponse is the one of the render that started the call, so it
\* resolves product ids against that render's catalog.
SendMessageSettled(c, o, fallback) ==
  LET res == ProcessAiResponse(o, c.products)
      good == o.ok /\ ~res.threw
  IN  /\ messages' = IF good
                       THEN messages \o res.msgs
                       ELSE AddMessage(messages, "assistant", fallback, Undefined, Undefined)
      /\ isTyping' = FALSE
      /\ calls' = calls \ {c}
      /\ last' = Step(IF good THEN "resolved" ELSE "failed", c, o, Len(messages))

InitChatSdkResume(c, o) ==
  /\ impl = "sdk"
  /\ mounted
  /\ c \in calls
  /\ c.kind = "greeting"
  /\ SendMessageSettled(c, o, GreetingFallback)
  /\ Stamp
  /\ UNCHANGED <<cfgVars, uplinkVars, products, inputText, mode, chatSessionRef, chatsCreated, issued,
                 greetingCalls, alerted, envVars, voiceVars, audioVars>>

\* handleTextSubmit up to its await; the chat handle is created on first use.
HandleTextSubmitSdk ==
  /\ impl = "sdk"
  /\ mounted
  /\ mode = "text"
  /\ IF Trim(inputText) = "" \/ isTyping
       THEN /\ last' = Step("submitRejected", NoCall, Rejection, Len(messages))
            /\ UNCHANGED <<inputText, messages, isTyping, calls, issued, submitsLeft,
                           chatSessionRef, chatsCreated>>
       ELSE LET handle == IF chatSessionRef = 0 THEN chatsCreated + 1 ELSE chatSessionRef
                c == Call(issued + 1, "turn", products, handle, "model")
            IN  /\ submitsLeft > 0
                /\ inputText' = ""
                /\ messages' = AddMessage(messages, "user", Trim(inputText), Undefined, Undefined)
                /\ isTyping' = TRUE
                /\ chatSessionRef' = handle
                /\ chatsCreated' = IF chatSessionRef = 0 THEN chatsCreated + 1 ELSE chatsCreated
                /\ calls' = calls \cup {c}
                /\ issued' = issued + 1
                /\ submitsLeft' = submitsLeft - 1
                /\ last' = Step("submit", c, Rejection, Len(messages))
  /\ Stamp
  /\ UNCHANGED <<cfgVars, uplinkVars, products, mode, greetingCalls, alerted, updatesLeft, startsLeft,
                 downlinkLeft, voiceVars, audioVars>>

HandleTextSubmitSdkResume(c, o) ==
  /\ impl = "sdk"
  /\ mounted
  /\ c \in calls
  /\ c.kind = "turn"
  /\ SendMessageSettled(c, o, TurnFallback)
  /\ Stamp
  /\ UNCHANGED <<cfgVars, uplinkVars, products, inputText, mode, chatSessionRef, chatsCreated, issued,
                 greetingCalls, alerted, envVars, voiceVars, audioVars>>

\* ------------------------------------------- the voice session of types.ts
\* One startVoiceSession call: where its async body stands (pc), the catalog
\* of the render it was called in, and what it has acquired.
Attempt(cat) ==
  [pc |-> "getUserMedia", products |-> cat, mic |-> "none", inputCtx |-> "none",
   outputCtx |-> "none", channel |-> "none", capture |-> FALSE]

\* A state setter: React ignores it once the component is unmounted.
SetState(new, old) == IF mounted THEN new ELSE old

\* stopVoiceSession: closes the session the ref holds and the two audio
\* contexts the ref holds, and clears the voice-active flag.
StopVoiceSession ==
  /\ voice' =
       [i \in DOMAIN voice |->
          LET v == voice[i]
              w == IF i = voiceSessionRef /\ v.channel = "open"
                     THEN [v EXCEPT !.channel = "closing"]
                     ELSE v
          IN  IF i = audioContextRef
                THEN [w EXCEPT !.inputCtx = "closed", !.outputCtx = "closed"]
                ELSE w]
  /\ isVoiceActive' = FALSE

\* toggleMode: from text, switch to voice and call startVoiceSession, which
\* runs up to its await of getUserMedia; from voice, stop and switch to text.
ToggleMode ==
  /\ impl = "sdk"
  /\ mounted
  /\ \/ /\ mode = "text"
        /\ startsLeft > 0
        /\ startsLeft' = startsLeft - 1
        /\ mode' = "voice"
        /\ voice' = Append(voice, Attempt(products))
        /\ UNCHANGED isVoiceActive
     \/ /\ mode = "voice"
        /\ StopVoiceSession
        /\ mode' = "text"
        /\ UNCHANGED startsLeft
  /\ UNCHANGED <<cfgVars, uplinkVars, idVars, products, messages, inputText, isTyping, chatSessionRef,
                 chatsCreated, calls, issued, greetingCalls, alerted, last, updatesLeft,
                 submitsLeft, downlinkLeft, mounted, voiceSessionRef, audioContextRef,
                 toolCalls, toolResponses, audioVars>>

\* The teardown effect: the widget is closed and stopVoiceSession runs.
Unmount ==
  /\ mounted
  /\ mounted' = FALSE
  /\ StopVoiceSession
  /\ UNCHANGED <<cfgVars, uplinkVars, idVars, chatVars, envVars, voiceSessionRef, audioContextRef, toolCalls,
                 toolResponses, audioVars>>

\* startVoiceSession after getUserMedia resolves: the stream is held, the two
\* audio contexts are created and stored in the ref, ai.live.connect is
\* called and the body waits for the session promise.
GetUserMediaResolved(a) ==
  /\ a \in DOMAIN voice
  /\ voice[a].pc = "getUserMedia"
  /\ voice' = [voice EXCEPT ![a].pc = "connect", ![a].mic = "live",
                            ![a].inputCtx = "running", ![a].outputCtx = "running",
                            ![a].channel = "connecting"]
  /\ audioContextRef' = a
  /\ UNCHANGED <<cfgVars, uplinkVars, idVars, chatVars, envVars, mounted, voiceSessionRef, isVoiceActive,
                 toolCalls, toolResponses, audioVars>>

\* startVoiceSession's catch after getUserMedia rejects.
GetUserMediaRejected(a) ==
  /\ a \in DOMAIN voice
  /\ voice[a].pc = "getUserMedia"
  /\ voice' = [voice EXCEPT ![a].pc = "failed"]
  /\ mode' = SetState("text", mode)
  /\ UNCHANGED <<cfgVars, uplinkVars, idVars, products, messages, inputText, isTyping, chatSessionRef,
                 chatsCreated, calls, issued, greetingCalls, alerted, last, envVars,
                 mounted, voiceSessionRef, audioContextRef, isVoiceActive, toolCalls,
                 toolResponses, audioVars>>

\* The onopen callback: the microphone stream is wired to the script
\* processor of the input context.
OnOpen(a) ==
  /\ a \in DOMAIN voice
  /\ voice[a].channel = "connecting"
  /\ voice' = [voice EXCEPT ![a].channel = "open",
                            ![a].capture = (voice[a].inputCtx = "running")]
  /\ UNCHANGED <<cfgVars, uplinkVars, idVars, chatVars, envVars, mounted, voiceSessionRef, audioContextRef,
                 isVoiceActive, toolCalls, toolResponses, audioVars>>

\* The session promise resolves: startVoiceSession resumes, stores the
\* session in the ref and sets the voice-active flag, and the sends that
\* onaudioprocess attached to the promise run, in the order they were
\* attached.
ConnectResolved(a) ==
  /\ a \in DOMAIN voice
  /\ voice[a].pc = "connect"
  /\ voice[a].channel \in {"open", "closing", "closed"}
  /\ voice' = [voice EXCEPT ![a].pc = "active"]
  /\ voiceSessionRef' = a
  /\ isVoiceActive' = SetState(TRUE, isVoiceActive)
  /\ sent' = sent \o SelectSeq(uplinkQueue, LAMBDA f : f.att = a)
  /\ uplinkQueue' = SelectSeq(uplinkQueue, LAMBDA f : f.att # a)
  /\ UNCHANGED <<cfgVars, framesLeft, captured, idVars, chatVars, envVars, mounted, audioContextRef,
                 toolCalls, toolResponses, audioVars>>

\* startVoiceSession's catch after the session promise rejects.
ConnectRejected(a) ==
  /\ a \in DOMAIN voice
  /\ voice[a].pc = "connect"
  /\ voice[a].channel = "connecting"
  /\ voice' = [voice EXCEPT ![a].pc = "failed", ![a].channel = "failed"]
  /\ mode' = SetState("text", mode)
  /\ UNCHANGED <<cfgVars, uplinkVars, idVars, products, messages, inputText, isTyping, chatSessionRef,
                 chatsCreated, calls, issued, greetingCalls, alerted, last, envVars,
                 mounted, voiceSessionRef, audioContextRef, isVoiceActive, toolCalls,
                 toolResponses, audioVars>>

\* One uplink frame: the attempt whose microphone it comes from, its number
\* in capture order, and whether its send had to wait for the session
\* promise.
Frame(a, n, queued) == [att |-> a, n |-> n, queued |-> queued]

\* A faulty variant of OnAudioProcess, used to test C31: while a downlink
\* handler is suspended in its decode, the frame waits in the queue.
OnAudioProcessAwaitsDownlink(a) ==
  /\ a \in DOMAIN voice
  /\ voice[a].capture
  /\ voice[a].inputCtx = "running"
  /\ framesLeft > 0
  /\ framesLeft' = framesLeft - 1
  /\ captured' = captured + 1
  /\ IF voice[a].pc = "active" /\ pending = {}
       THEN /\ sent' = Append(sent, Frame(a, captured + 1, FALSE))
            /\ UNCHANGED uplinkQueue
       ELSE /\ uplinkQueue' = Append(uplinkQueue, Frame(a, captured + 1, TRUE))
            /\ UNCHANGED sent
  /\ UNCHANGED <<cfgVars, idVars, chatVars, envVars, voiceVars, audioVars>>

\* The onaudioprocess callback of the script processor: the frame is
\* converted and its send is attached to the session promise with then.
\* On a resolved promise the send runs as a microtask, before any other
\* callback; on a pending one it waits for the resolution; on a rejected one
\* it never runs.
OnAudioProcess(a) ==
  /\ a \in DOMAIN voice
  /\ voice[a].capture
  /\ voice[a].inputCtx = "running"
  /\ framesLeft > 0
  /\ framesLeft' = framesLeft - 1
  /\ captured' = captured + 1
  /\ CASE voice[a].pc = "active" ->
            /\ sent' = Append(sent, Frame(a, captured + 1, FALSE))
            /\ UNCHANGED uplinkQueue
       [] voice[a].pc = "connect" ->
            /\ uplinkQueue' = Append(uplinkQueue, Frame(a, captured + 1, TRUE))
            /\ UNCHANGED sent
       [] OTHER -> UNCHANGED <<uplinkQueue, sent>>
  /\ UNCHANGED <<cfgVars, idVars, chatVars, envVars, voiceVars, audioVars>>

\* The onclose callback: the channel has closed (closed by session.close(), or
\* by the remote end).
OnClose(a) ==
  /\ a \in DOMAIN voice
  /\ voice[a].channel \in {"open", "closing"}
  /\ voice' = [voice EXCEPT ![a].channel = "closed"]
  /\ isVoiceActive' = SetState(FALSE, isVoiceActive)
  /\ UNCHANGED <<cfgVars, uplinkVars, idVars, chatVars, envVars, mounted, voiceSessionRef, audioContextRef,
                 toolCalls, toolResponses, audioVars>>

\* A message of the voice channel: its tool calls, the duration of its audio
\* chunk (0: none) and its interruption signal.
LiveMessage(fcs, audio, interrupted) ==
  [toolCalls |-> fcs, audio |-> audio, interrupted |-> interrupted]

\* A faulty variant of ToolCallLoop, used to test C18: addMessage is called
\* without its fourth argument, so the message carries no reasoning.
RECURSIVE ToolCallLoopNoReason(_, _, _)
ToolCallLoopNoReason(fcs, cat, acc) ==
  IF fcs = <<>> THEN acc
  ELSE LET fc == Head(fcs)
       IN  IF fc.name # "recommend_product" THEN ToolCallLoopNoReason(Tail(fcs), cat, acc)
           ELSE IF ~fc.hasArgs /\ cat # <<>>
             THEN [acc EXCEPT !.threw = TRUE, !.seen = @ + 1]
             ELSE LET prod == Find(cat, fc.productId)
                      msgs == IF prod # Undefined
                                THEN Append(acc.msgs,
                                            Message("assistant", fc.reasoning, prod, Undefined))
                                ELSE acc.msgs
                  IN  ToolCallLoopNoReason(Tail(fcs), cat,
                                   [acc EXCEPT !.msgs = msgs, !.seen = @ + 1, !.acks = @ + 1])

\* The loop of onmessage over the tool calls of a message: the messages it
\* appends, the calls it has seen and acknowledged, and whether it threw,
\* which ends the handler. A call without args throws in the callback of
\* products.find, which runs only when the catalog has a product.
RECURSIVE ToolCallLoop(_, _, _)
ToolCallLoop(fcs, cat, acc) ==
  IF fcs = <<>> THEN acc
  ELSE LET fc == Head(fcs)
       IN  IF fc.name # "recommend_product" THEN ToolCallLoop(Tail(fcs), cat, acc)
           ELSE IF ~fc.hasArgs /\ cat # <<>>
             THEN [acc EXCEPT !.threw = TRUE, !.seen = @ + 1]
             ELSE LET prod == Find(cat, fc.productId)
                      msgs == IF prod # Undefined
                                THEN Append(acc.msgs,
                                            Message("assistant", fc.reasoning, prod, fc.reasoning))
                                ELSE acc.msgs
                  IN  ToolCallLoop(Tail(fcs), cat,
                                   [acc EXCEPT !.msgs = msgs, !.seen = @ + 1, !.acks = @ + 1])

Max(x, y) == IF x >= y THEN x ELSE y

\* A faulty variant of Interrupted, used to test C12: the live sources are
\* stopped and the set is cleared, but the cursor is left where it was.
InterruptedKeepsCursor(live) ==
  /\ stopped' = stopped \cup live
  /\ audioSources' = {}
  /\ nextStartTime' = nextStartTime
  /\ interruptions' = interruptions + 1

\* The interruption branch of onmessage, run with the given live set: every
\* live source is stopped, the live set is cleared and the cursor is reset.
Interrupted(live) ==
  /\ stopped' = stopped \cup live
  /\ audioSources' = {}
  /\ nextStartTime' = 0
  /\ interruptions' = interruptions + 1

\* The onmessage callback up to its first suspension: the tool-call loop,
\* then either the audio branch up to await decodeAudioData, or (no audio)
\* the interruption branch.
OnMessage(a, m) ==
  LET loop == ToolCallLoop(m.toolCalls, voice[a].products,
                           [msgs |-> <<>>, seen |-> 0, acks |-> 0, threw |-> FALSE])
      c == [NoCall EXCEPT !.kind = "voice", !.products = voice[a].products]
  IN  /\ a \in DOMAIN voice
      /\ voice[a].channel = "open"
      /\ downlinkLeft > 0
      /\ downlinkLeft' = downlinkLeft - 1
      /\ messages' = SetState(messages \o loop.msgs, messages)
      /\ toolCalls' = toolCalls + loop.seen
      /\ toolResponses' = toolResponses + loop.acks
      /\ last' = IF m.toolCalls # <<>>
                   THEN Step(IF loop.threw THEN "toolCallThrew" ELSE "toolCall", c,
                             [ok |-> TRUE, text |-> Undefined, functionCalls |-> m.toolCalls],
                             Len(messages))
                   ELSE last
      /\ IF loop.threw
           THEN UNCHANGED audioVars
           ELSE IF m.audio > 0
             THEN /\ nextStartTime' = Max(nextStartTime, clock)
                  /\ arrived' = arrived + 1
                  /\ pending' = pending \cup
                       {[seg |-> arrived + 1, duration |-> m.audio,
                         interrupted |-> m.interrupted, epoch |-> interruptions]}
                  /\ UNCHANGED <<clock, audioSources, scheduled, interruptions, stopped>>
             ELSE IF m.interrupted
               THEN /\ Interrupted(audioSources)
                    /\ UNCHANGED <<clock, pending, scheduled, arrived>>
               ELSE UNCHANGED audioVars
      /\ Stamp
      /\ UNCHANGED <<cfgVars, uplinkVars, products, inputText, isTyping, mode, chatSessionRef,
                     chatsCreated, calls, issued, greetingCalls, alerted, updatesLeft,
                     submitsLeft, startsLeft, mounted, voice, voiceSessionRef,
                     audioContextRef, isVoiceActive>>

\* onmessage after await decodeAudioData: the source is created, started at
\* the cursor and added to the live set, the cursor advances by the buffer's
\* duration; then the interruption branch of the same message.
DecodeAudioDataDone(h) ==
  /\ h \in pending
  /\ pending' = pending \ {h}
  /\ scheduled' = Append(scheduled,
       [seg |-> h.seg, start |-> nextStartTime, duration |-> h.duration,
        clock |-> clock, after |-> interruptions, epoch |-> h.epoch])
  /\ IF h.interrupted
       THEN Interrupted(audioSources \cup {h.seg})
       ELSE /\ nextStartTime' = nextStartTime + h.duration
            /\ audioSources' = audioSources \cup {h.seg}
            /\ UNCHANGED <<interruptions, stopped>>
  /\ UNCHANGED <<cfgVars, uplinkVars, idVars, chatVars, envVars, voiceVars, clock, arrived>>

\* source.onended: a source that has played to its end leaves the live set.
OnEnded(seg) ==
  /\ seg \in audioSources
  /\ \E i \in DOMAIN scheduled :
       /\ scheduled[i].seg = seg
       /\ clock >= Max(scheduled[i].start, scheduled[i].clock) + scheduled[i].duration
  /\ audioSources' = audioSources \ {seg}
  /\ UNCHANGED <<cfgVars, uplinkVars, idVars, chatVars, envVars, voiceVars, clock, nextStartTime, pending,
                 scheduled, arrived, interruptions, stopped>>

\* The output context's clock advances while the context runs.
Tick ==
  /\ \E a \in DOMAIN voice : voice[a].outputCtx = "running"
  /\ clock < MaxClock
  /\ clock' = clock + 1
  /\ UNCHANGED <<cfgVars, uplinkVars, idVars, chatVars, envVars, voiceVars, nextStartTime, audioSources,
                 pending, scheduled, arrived, interruptions, stopped>>

\* ------------------------------------------------------------ specification
\* Spec: a text-mode session of either build, with the serverless function.
FetchNext ==
  \/ \E cat \in Catalogs : UseEffectProducts(cat)
  \/ HandleTextSubmit
  \/ ToggleModeFetch
  \/ \E c \in calls, r \in {"ok", "readFailed", "embedFailed"} : HandlerEmbed(c, r)
  \/ \E c \in calls, ok \in BOOLEAN, text \in {Undefined, "t"} : HandlerChat(c, ok, text)
  \/ \E c \in calls, delivered \in BOOLEAN : InitChatResume(c, delivered)
  \/ \E c \in calls, delivered \in BOOLEAN : HandleTextSubmitResume(c, delivered)

SdkNext ==
  \/ \E cat \in Catalogs : UseEffectProductsSdk(cat)
  \/ HandleTextSubmitSdk
  \/ \E c \in calls, o \in Outcomes : InitChatSdkResume(c, o)
  \/ \E c \in calls, o \in Outcomes : HandleTextSubmitSdkResume(c, o)

Next ==
  \/ \E t \in InputTexts : SetInputText(t)
  \/ FetchNext
  \/ SdkNext

Spec == Init /\ [][Next]_vars

\* SpecRace: the same session with a catalog that changes more than once and
\* a visitor who submits more than once, so that calls can overlap.
InitRace ==
  /\ impl \in {"fetch", "sdk"}
  /\ apiKey \in (IF impl = "fetch" THEN BOOLEAN ELSE {TRUE})
  /\ updatesLeft = RaceCatalogUpdates
  /\ submitsLeft = RaceSubmits
  /\ startsLeft = 0
  /\ downlinkLeft = 0
  /\ framesLeft = 0
  /\ InitComponent

SpecRace == InitRace /\ [][Next]_vars

\* SpecVoice: a session of the build of types.ts in which the visitor also
\* enters and leaves voice mode and the channel delivers tool calls.
InitVoice ==
  /\ impl = "sdk"
  /\ apiKey = TRUE
  /\ updatesLeft = VoiceCatalogUpdates
  /\ submitsLeft = VoiceSubmits
  /\ startsLeft = MaxVoiceStarts
  /\ downlinkLeft = MaxToolMessages
  /\ framesLeft = 0
  /\ InitComponent

VoiceLifecycle ==
  \/ ToggleMode
  \/ Unmount
  \/ \E a \in DOMAIN voice : GetUserMediaResolved(a)
  \/ \E a \in DOMAIN voice : GetUserMediaRejected(a)
  \/ \E a \in DOMAIN voice : OnOpen(a)
  \/ \E a \in DOMAIN voice : ConnectResolved(a)
  \/ \E a \in DOMAIN voice : ConnectRejected(a)
  \/ \E a \in DOMAIN voice : OnClose(a)

ToolMessages == {LiveMessage(fcs, 0, FALSE) : fcs \in FnCallLists \ {<<>>}}

NextVoice ==
  \/ \E t \in InputTexts : SetInputText(t)
  \/ SdkNext
  \/ VoiceLifecycle
  \/ \E a \in DOMAIN voice, m \in ToolMessages : OnMessage(a, m)

SpecVoice == InitVoice /\ [][NextVoice]_vars

\* SpecAudio: one voice session and the playback of its downlink.
InitAudio ==
  /\ impl = "sdk"
  /\ apiKey = TRUE
  /\ updatesLeft = 0
  /\ submitsLeft = 0
  /\ startsLeft = AudioStarts
  /\ downlinkLeft = MaxAudioMessages
  /\ framesLeft = 0
  /\ InitComponent

Durations == {1, 2}

AudioMessages ==
  {LiveMessage(<<>>, d, i) : d \in Durations \cup {0}, i \in BOOLEAN}
    \ {LiveMessage(<<>>, 0, FALSE)}

NextAudio ==
  \/ VoiceLifecycle
  \/ \E a \in DOMAIN voice, m \in AudioMessages : OnMessage(a, m)
  \/ \E h \in pending : DecodeAudioDataDone(h)
  \/ \E seg \in audioSources : OnEnded(seg)
  \/ Tick

SpecAudio == InitAudio /\ [][NextAudio]_vars

\* SpecReopen: voice mode is entered, left and entered again, with playback.
InitReopen ==
  /\ impl = "sdk"
  /\ apiKey = TRUE
  /\ updatesLeft = 0
  /\ submitsLeft = 0
  /\ startsLeft = ReopenStarts
  /\ downlinkLeft = ReopenAudioMessages
  /\ framesLeft = 0
  /\ InitComponent

SpecReopen == InitReopen /\ [][NextAudio]_vars

\* SpecUplink: one voice session with its microphone frames and a downlink
\* message.
InitUplink ==
  /\ impl = "sdk"
  /\ apiKey = TRUE
  /\ updatesLeft = 0
  /\ submitsLeft = 0
  /\ startsLeft = UplinkStarts
  /\ downlinkLeft = UplinkAudioMessages
  /\ framesLeft = MaxFrames
  /\ InitComponent

NextUplink ==
  \/ NextAudio
  \/ \E a \in DOMAIN voice : OnAudioProcess(a)

SpecUplink == InitUplink /\ [][NextUplink]_vars

\* SpecIds: a session of the build of types.ts with a greeting and voice
\* tool calls, while the millisecond clock advances.
InitIds ==
  /\ impl = "sdk"
  /\ apiKey = TRUE
  /\ updatesLeft = IdCatalogUpdates
  /\ submitsLeft = 0
  /\ startsLeft = IdVoiceStarts
  /\ downlinkLeft = IdToolMessages
  /\ framesLeft = 0
  /\ InitComponent

\* The millisecond clock advances between two handler steps.
DateTick ==
  /\ now < MaxNow
  /\ now' = now + 1
  /\ UNCHANGED <<cfgVars, uplinkVars, messageIds, chatVars, envVars, voiceVars, audioVars>>

TwoRecommendations == LiveMessage(<<RecP1, RecP2>>, 0, FALSE)

NextIds ==
  \/ \E cat \in Catalogs : UseEffectProductsSdk(cat)
  \/ \E c \in calls, o \in Outcomes : InitChatSdkResume(c, o)
  \/ VoiceLifecycle
  \/ \E a \in DOMAIN voice, m \in ToolMessages \cup {TwoRecommendations} : OnMessage(a, m)
  \/ DateTick

SpecIds == InitIds /\ [][NextIds]_vars

\* SpecRank: the two rankers applied to catalogs and queries.
CatalogsOf(S) == UNION {[1..n -> S] : n \in 0..MaxRanked}

\* Steps 2 to 5 of the function for a catalog of n products and the answer
\* of the embedding service: the one batched embedding call, the split of
\* its result, the ranking and the augmented prompt. The prompt is named
\* by its embedding.
Retrieve(n, answer) ==
  LET allTexts == AllTexts(n)
      embeddings == GetEmbeddings(answer)
      queryEmbedding == embeddings[1]
      productEmbeddings == ProductEmbeddings(embeddings)
      relevantProducts == RelevantProducts(queryEmbedding, productEmbeddings)
  IN  /\ ranking' = [kind |-> "cosine", query |-> queryEmbedding,
                     docs |-> productEmbeddings,
                     scores |-> Similarities(queryEmbedding, productEmbeddings),
                     result |-> relevantProducts,
                     prompt |-> AugmentedPrompt(queryEmbedding, relevantProducts),
                     batches |-> <<allTexts>>, answer |-> answer]
      /\ UNCHANGED <<impl, apiKey, uplinkVars, idVars, chatVars, envVars, voiceVars, audioVars>>

\* The retrieval and augmentation steps of handleTextSubmit (types.ts) for a
\* query and a catalog.
RetrieveLexical(query, allProducts) ==
  /\ ranking' = [kind |-> "lexical", query |-> query, docs |-> allProducts,
                 scores |-> [i \in 1..Len(allProducts) |->
                               LexicalScore(QueryWords(query), allProducts[i])],
                 result |-> FindRelevantProducts(query, allProducts),
                 prompt |-> AugmentedUserMessage(query,
                              FindRelevantProducts(query, allProducts)),
                 batches |-> <<>>, answer |-> <<>>]
  /\ UNCHANGED <<impl, apiKey, uplinkVars, idVars, chatVars, envVars, voiceVars, audioVars>>

InitRank ==
  /\ impl \in {"fetch", "sdk"}
  /\ apiKey = TRUE
  /\ updatesLeft = 0
  /\ submitsLeft = 0
  /\ startsLeft = 0
  /\ downlinkLeft = 0
  /\ framesLeft = 0
  /\ InitComponent

\* One retrieval in a behaviour: the function ranks by cosine similarity,
\* the component of types.ts lexically.
NextRank ==
  \/ /\ impl = "fetch"
     /\ ranking = NoRanking
     /\ \E n \in 0..MaxRanked : \E answer \in Answers(n) : Retrieve(n, answer)
  \/ /\ impl = "sdk"
     /\ ranking = NoRanking
     /\ \E q \in Queries, docs \in CatalogsOf(LexicalProducts), scheme \in IdSchemes :
          RetrieveLexical(q, WithIds(docs, scheme))

SpecRank == InitRank /\ [][NextRank]_vars

\* ------------------------------------------------------------------ claims
Settled == last.op \in {"resolved", "failed"}
TurnsInFlight == {c \in calls : c.kind = "turn"}
LastMessage == messages[Len(messages)]

\* C1: a text turn in flight holds the busy flag, so that no second text turn
\* begins before the first has appended its reply or fallback and cleared
\* the flag: at most one text turn is in flight, and while one is, the flag
\* is true.
C1_TextTurnsSequential ==
  /\ Cardinality(TurnsInFlight) <= 1
  /\ TurnsInFlight # {} => isTyping

\* C2: at most one model call is in flight, greeting calls and user-turn
\* calls counted together.
C2_AtMostOneCallInFlight == Cardinality(calls) <= 1

\* C3: the step that ends a failed turn appends exactly one assistant message,
\* the turn's fixed fallback text without recommendation, and leaves the busy
\* flag false.
C3_FailedTurnFallback ==
  [][\A c \in calls :
       (c \notin calls' /\ last'.op = "failed" /\ last'.id = c.id)
         => /\ messages' = Append(messages,
                 Message("assistant",
                         IF c.kind = "greeting" THEN GreetingFallback ELSE TurnFallback,
                         Undefined, Undefined))
            /\ ~isTyping']_vars

C3_Witness ==
  /\ last.op = "failed"
  /\ last.kind = "turn"
  /\ Len(messages) = last.pre + 1
  /\ LastMessage.content = TurnFallback
  /\ ~isTyping
  /\ calls = {}

\* C4: the greeting call is issued at most once in a session.
C4_GreetingSentOnce == greetingCalls <= 1

\* C5: no message of the session has empty text and no recommendation.
C5_NoEmptyMessage ==
  \A i \in DOMAIN messages :
    ~(messages[i].content \in {"", Undefined} /\ messages[i].recommendation = Undefined)

\* C6: the messages a handler step has just appended (by a text response or
\* by a voice tool call) carry no recommendation outside the catalog the
\* handler was given; the list being append-only, this covers every message.
C6_RecommendationInCatalog ==
  last.op \in {"resolved", "failed", "toolCall", "toolCallThrew"} =>
    \A i \in (last.pre + 1)..Len(messages) :
      messages[i].recommendation \in Range(last.products) \cup {Undefined}

C6_Witness ==
  /\ last.op = "toolCall"
  /\ last.outcome.functionCalls = <<RecMissing, RecP2>>
  /\ Len(messages) = last.pre + 1
  /\ LastMessage.recommendation = "p2"
  /\ \E i \in 1..last.pre : messages[i].recommendation = "p1"

\* A recommend_product call that is well formed and resolves in the catalog.
ValidCall(fc, cat) ==
  /\ fc.name = "recommend_product"
  /\ fc.hasArgs
  /\ fc.reasoning # Undefined
  /\ Find(cat, fc.productId) # Undefined

ValidAt(fcs, cat) == {i \in DOMAIN fcs : ValidCall(fcs[i], cat)}
MalformedAt(fcs, cat) ==
  {i \in DOMAIN fcs : fcs[i].name = "recommend_product" /\ ~ValidCall(fcs[i], cat)}

\* C7: a text-mode response with text whose recommend_product call does not
\* resolve or lacks a field ends in one message with that text, without
\* recommendation and without reasoning, and without the error fallback.
C7_MalformedCallKeepsText ==
  ( /\ impl = "sdk"
    /\ Settled
    /\ last.outcome.ok
    /\ last.outcome.text \notin {Undefined, ""}
    /\ MalformedAt(last.outcome.functionCalls, last.products) # {}
    /\ ValidAt(last.outcome.functionCalls, last.products) = {} )
  => /\ last.op = "resolved"
     /\ Len(messages) = last.pre + 1
     /\ LastMessage = Message("assistant", last.outcome.text, Undefined, Undefined)

\* C8: a response holding a recommend_product call that resolves, at whatever
\* position, ends in one message with the response's text, that product and
\* that reasoning.
C8_ValidCallAttached ==
  ( /\ impl = "sdk"
    /\ Settled
    /\ last.outcome.ok
    /\ Cardinality(ValidAt(last.outcome.functionCalls, last.products)) = 1 )
  => LET fc == last.outcome.functionCalls[
                 CHOOSE i \in ValidAt(last.outcome.functionCalls, last.products) : TRUE]
     IN  /\ Len(messages) = last.pre + 1
         /\ LastMessage =
              Message("assistant", OrEmpty(last.outcome.text), fc.productId, fc.reasoning)

\* C9: a request whose embedding call failed still has the chat model
\* invoked: it never gets its response without the chat call, and the turn
\* it belongs to never settles without it.
C9_EmbeddingFailureDegrades ==
  /\ \A c \in calls : (c.embed = "failed" /\ c.stage = "response") => c.chat # "none"
  /\ (Settled /\ last.embed = "failed") => last.chat # "none"

\* C10: of two segments started one after the other with no interruption
\* between them, the second starts no earlier than the first's start plus
\* the first's duration; and every segment is started no earlier than the
\* output clock (its start time is the cursor itself).
ConsecutiveStartsOrdered ==
  \A i \in 1..(Len(scheduled) - 1) :
    scheduled[i + 1].after = scheduled[i].after
      => scheduled[i + 1].start >= scheduled[i].start + scheduled[i].duration

C10_PlaybackCursor ==
  /\ ConsecutiveStartsOrdered
  /\ \A i \in DOMAIN scheduled : scheduled[i].start >= scheduled[i].clock

\* C11: segments are started in the order their chunks arrived: of two
\* segments started with no interruption between them, the one whose chunk
\* arrived first has the start time that is not later, whatever order the
\* decodes completed in.
C11_ArrivalOrder ==
  \A i, j \in DOMAIN scheduled :
    (scheduled[i].seg < scheduled[j].seg /\ scheduled[i].after = scheduled[j].after)
      => scheduled[i].start <= scheduled[j].start

\* C12: the step that processes an interruption signal stops every source
\* that is live, the one started by the same message included, and leaves
\* the live set empty and the cursor at 0.
C12_InterruptionClears ==
  [][interruptions' = interruptions + 1
       => /\ audioSources' = {}
          /\ nextStartTime' = 0
          /\ audioSources \subseteq stopped'
          /\ \A i \in (Len(scheduled) + 1)..Len(scheduled') :
               scheduled'[i].seg \in stopped']_vars

C12_Witness ==
  /\ interruptions = 1
  /\ Len(scheduled) = 2
  /\ stopped = {1, 2}
  /\ audioSources = {}
  /\ nextStartTime = 0

\* A step that closes the voice session: the teardown of the component, or
\* the toggle from voice to text (the catch of startVoiceSession also sets
\* the mode to text, but it ends a startVoiceSession call).
CloseStep ==
  \/ mounted /\ ~mounted'
  \/ /\ mode = "voice"
     /\ mode' = "text"
     /\ \A a \in DOMAIN voice : voice'[a].pc = voice[a].pc

\* C13: a step that closes the voice session leaves no microphone stream
\* live, no audio context running, no channel connecting or open, and the
\* voice-active flag false.
C13_CloseReleasesAll ==
  [][CloseStep
       => /\ ~isVoiceActive'
          /\ \A a \in DOMAIN voice' :
               /\ voice'[a].mic # "live"
               /\ voice'[a].inputCtx # "running"
               /\ voice'[a].outputCtx # "running"
               /\ voice'[a].channel \notin {"connecting", "open"}]_vars

\* C14: while the mode is text or the widget is closed, no channel is open,
\* the session ref holds no session whose channel is connecting or open, and
\* the voice-active flag is false: a connection attempt that was closed
\* while connecting never ends up established.
C14_CancelledConnectTornDown ==
  (mode = "text" \/ ~mounted)
    => /\ ~isVoiceActive
       /\ \A a \in DOMAIN voice : voice[a].channel # "open"
       /\ voiceSessionRef # 0 => voice[voiceSessionRef].channel \notin {"connecting", "open"}

\* C15: the step in which a startVoiceSession call fails (getUserMedia or
\* the session promise rejects) leaves the mode text and nothing of that
\* call half-initialized: no live microphone stream, no running audio
\* context, no connecting or open channel, and the voice-active flag false.
C15_FailedStartReverts ==
  [][\A a \in DOMAIN voice :
       (voice[a].pc \in {"getUserMedia", "connect"} /\ voice'[a].pc = "failed")
         => /\ mounted => mode' = "text"
            /\ ~isVoiceActive'
            /\ voice'[a].mic # "live"
            /\ voice'[a].inputCtx # "running"
            /\ voice'[a].outputCtx # "running"
            /\ voice'[a].channel \notin {"connecting", "open"}]_vars

\* C16: a toggle of the mode made in text mode enters voice mode (the mode
\* is voice after it); and a startVoiceSession call whose session promise
\* resolves while the component is mounted leaves the voice-active flag true.
C16_ToggleEntersVoice ==
  [][/\ (mode = "text" /\ (ToggleMode \/ ToggleModeFetch)) => mode' = "voice"
     /\ \A a \in DOMAIN voice :
          (mounted /\ voice[a].pc = "connect" /\ voice'[a].pc = "active") => isVoiceActive']_vars

\* C17: every recommend_product call the voice channel has delivered to the
\* tool-call loop has been acknowledged with one sendToolResponse.
C17_ToolCallsAcknowledged == toolResponses = toolCalls

\* The step in which onmessage handles a message whose only tool call is a
\* recommend_product call, and the messages that step appends.
VoiceToolStep ==
  /\ downlinkLeft' = downlinkLeft - 1
  /\ mounted
  /\ last'.op \in {"toolCall", "toolCallThrew"}
  /\ Len(last'.outcome.functionCalls) = 1
  /\ last'.outcome.functionCalls[1].name = "recommend_product"

VoiceAppended == SubSeq(messages', Len(messages) + 1, Len(messages'))

\* What processAiResponse appends in text mode for the same call and catalog
\* with the given accompanying text.
TextAppended(text) ==
  ProcessAiResponse([ok |-> TRUE, text |-> text,
                     functionCalls |-> last'.outcome.functionCalls], last'.products).msgs

\* The recommendations of a list of messages: product and reasoning.
RecommendationsOf(msgs) ==
  LET sel == SelectSeq(msgs, LAMBDA m : m.recommendation # Undefined)
  IN  [i \in 1..Len(sel) |-> <<sel[i].recommendation, sel[i].reason>>]

C19_ReopenStartsFresh ==
  [][(/\ mode = "text"
      /\ mode' = "voice"
      /\ \A a \in DOMAIN voice :
           /\ voice[a].pc \notin {"getUserMedia", "connect"}
           /\ voice[a].channel \notin {"connecting", "open"}
           /\ voice[a].inputCtx # "running"
           /\ voice[a].outputCtx # "running")
       => (nextStartTime' = 0 /\ audioSources' = {})]_vars

\* The score of a ranked product, computed again from the query and the
\* catalog the ranker was given.
ScoreOf(e) ==
  IF ranking.kind = "cosine"
    THEN CosineSimilarity(ranking.query, ranking.docs[e.index])
    ELSE LexicalScore(QueryWords(ranking.query), ranking.docs[e.index])

\* C20: the result of either ranker has at most 3 products, and their
\* scores do not increase along it.
C20_TopKSorted ==
  ranking.kind # "none" =>
    /\ Len(ranking.result) <= 3
    /\ \A i, j \in DOMAIN ranking.result :
         i < j => ScoreOf(ranking.result[i]) >= ScoreOf(ranking.result[j])

C20_Witness ==
  /\ ranking.kind = "cosine"
  /\ Len(ranking.docs) = 4
  /\ Len(ranking.result) = 3
  /\ ScoreOf(ranking.result[1]) > ScoreOf(ranking.result[2])
  /\ ScoreOf(ranking.result[2]) > ScoreOf(ranking.result[3])
  /\ ranking.result[1].index > ranking.result[3].index

C20_WitnessLexical ==
  /\ ranking.kind = "lexical"
  /\ Len(ranking.docs) = 4
  /\ Len(ranking.result) = 3
  /\ ScoreOf(ranking.result[1]) > ScoreOf(ranking.result[3])
  /\ ranking.result[1].index > ranking.result[3].index

\* C21: products of equal score appear in a ranker's result in the order
\* they have in the catalog.
C21_TiesInCatalogOrder ==
  ranking.kind # "none" =>
    \A i, j \in DOMAIN ranking.result :
      (i < j /\ ScoreOf(ranking.result[i]) = ScoreOf(ranking.result[j]))
        => ranking.result[i].index < ranking.result[j].index

\* C22: the cosine ranker gives every product a score, a number, and the
\* score is 0 whenever the query vector or the product vector has zero
\* magnitude.
C22_ZeroMagnitudeScoresZero ==
  ranking.kind = "cosine" =>
    /\ Len(ranking.scores) = Len(ranking.docs)
    /\ \A i \in DOMAIN ranking.docs :
         /\ ranking.scores[i] \in Int
         /\ (Dot(ranking.query, ranking.query) = 0
               \/ Dot(ranking.docs[i], ranking.docs[i]) = 0)
              => ranking.scores[i] = 0

C22_Witness ==
  /\ ranking.kind = "cosine"
  /\ Dot(ranking.query, ranking.query) # 0
  /\ \E i, j \in DOMAIN ranking.docs :
       /\ Dot(ranking.docs[i], ranking.docs[i]) = 0
       /\ ranking.scores[i] = 0
       /\ ranking.scores[j] > 0

\* C23: the score the cosine ranker gave a product for the query is the
\* score of the pair taken the other way round.
C23_CosineSymmetric ==
  ranking.kind = "cosine" =>
    \A i \in DOMAIN ranking.docs :
      ranking.scores[i] = CosineSimilarity(ranking.docs[i], ranking.query)

C23_Witness ==
  /\ ranking.kind = "cosine"
  /\ \E i \in DOMAIN ranking.docs :
       /\ ranking.docs[i] # ranking.query
       /\ Dot(ranking.docs[i], ranking.docs[i]) # Dot(ranking.query, ranking.query)
       /\ ranking.scores[i] \notin {0, 4, -4}

\* C24: when the function has no API key, no request reaches the embedding
\* call or the model call, every answer of the function is an error (500),
\* every settled call has failed, and no call is issued beyond the one of
\* each greeting and of each accepted submission.
C24_NoKeyFailsHard ==
  (impl = "fetch" /\ ~apiKey) =>
    /\ \A c \in calls :
         /\ c.embed = "none"
         /\ c.chat = "none"
         /\ c.stage \in {"request", "response"}
         /\ c.stage = "response" => c.status = 500
    /\ Settled => (last.op = "failed" /\ last.embed = "none" /\ last.chat = "none")
    /\ issued = greetingCalls + (MaxSubmits - submitsLeft)

C24_Witness ==
  /\ impl = "fetch"
  /\ ~apiKey
  /\ last.op = "failed"
  /\ last.kind = "turn"
  /\ last.outcome = Rejection
  /\ LastMessage.content = TurnFallback
  /\ calls = {}
  /\ issued = 2

\* C25: no call is made twice. The calls issued are one per greeting and one
\* per accepted submission; an embedding call or a chat call that was made
\* for a request is not made again for it; a request whose embedding or chat
\* call failed is answered at once; and the step that settles a failed call
\* appends the fallback and issues or queues nothing.
C25_NoRetry ==
  [][/\ issued' = greetingCalls' + (MaxSubmits - submitsLeft')
     /\ \A c \in calls :
          /\ \A d \in calls' :
               d.id = c.id =>
                 /\ c.embed # "none" => d.embed = c.embed
                 /\ c.chat # "none" => d.chat = c.chat
                 /\ ("failed" \in {d.embed, d.chat}) => d.stage = "response"
          /\ (c \notin calls' /\ last'.op = "failed" /\ last'.id = c.id)
               => /\ calls' = calls \ {c}
                  /\ issued' = issued
                  /\ Len(messages') = Len(messages) + 1
                  /\ messages'[Len(messages')].content
                       = (IF c.kind = "greeting" THEN GreetingFallback ELSE TurnFallback)]_vars

C25_Witness ==
  /\ impl = "fetch"
  /\ apiKey
  /\ last.op = "failed"
  /\ last.kind = "turn"
  /\ last.embed = "ok"
  /\ last.chat = "failed"
  /\ LastMessage.content = TurnFallback
  /\ calls = {}
  /\ issued = 2

\* C26: when retrieval returned products, the prompt sent to the model lists
\* exactly those products, in that order, each with its id, name and
\* description, before the visitor's text; when retrieval returned nothing,
\* the prompt is the visitor's text alone.
C26_PromptListsRetrieved ==
  ranking.kind # "none" =>
    ranking.prompt =
      (IF ranking.result # <<>>
         THEN Prompt(TRUE, Listing(ranking.result, {"id", "name", "description"}),
                     ranking.query)
         ELSE Prompt(FALSE, <<>>, ranking.query))

\* C27: a session has at most one conversation handle, created once, and
\* every call in flight was sent over it.
C27_PersistentHandle ==
  /\ chatsCreated <= 1
  /\ \A c \in calls : c.handle # 0 /\ c.handle = chatSessionRef

\* The vector the embedding service returned for a text of the batch.
VectorFor(text) ==
  LET k == CHOOSE k \in DOMAIN ranking.batches[1] : ranking.batches[1][k] = text
  IN  ranking.answer[k].values

\* C28: the function makes one embedding call per request, for the prompt
\* followed by the documents of all products in catalog order, and scores
\* the i-th product with the vector returned for the i-th document against
\* the vector returned for the prompt.
C28_BatchedEmbeddingsAligned ==
  ranking.kind = "cosine" =>
    /\ Len(ranking.batches) = 1
    /\ ranking.batches[1] = <<PromptText>> \o [i \in 1..Len(ranking.docs) |-> DocOf(i)]
    /\ Len(ranking.scores) = Len(ranking.batches[1]) - 1
    /\ \A i \in DOMAIN ranking.scores :
         ranking.scores[i] = CosineSimilarity(VectorFor(PromptText), VectorFor(DocOf(i)))

C28_Witness ==
  /\ ranking.kind = "cosine"
  /\ Len(ranking.batches[1]) = 4
  /\ ranking.answer[1].values = <<1, 0>>
  /\ ranking.answer[2].values = <<0, 1>>
  /\ ranking.answer[3].values = <<1, 1>>
  /\ ranking.answer[4].values = <<-1, 0>>
  /\ ranking.scores = <<0, 2, -4>>

\* The messages a step has put after the ones that were there.
Appended == SubSeq(messages', Len(messages) + 1, Len(messages'))

\* C29: every step keeps the messages that were there, unchanged and in
\* place, and puts after them one message for each append its handler made:
\* the visitor's text for an accepted submission, the fallback for a failed
\* call, the reply of a resolved call (types.ts: what processAiResponse
\* appends for it), one message for each recommendation a voice tool-call
\* message resolves; a step of no such handler leaves the list as it was.
C29_AppendOnly ==
  [][/\ Len(messages') >= Len(messages)
     /\ SubSeq(messages', 1, Len(messages)) = messages
     /\ mounted =>
          IF last' = last THEN Appended = <<>>
          ELSE CASE last'.op = "submit" ->
                      Appended = <<Message("user", Trim(inputText), Undefined, Undefined)>>
                 [] last'.op = "failed" ->
                      /\ Len(Appended) = 1
                      /\ Appended[1].content \in {GreetingFallback, TurnFallback}
                 [] last'.op = "resolved" ->
                      Appended =
                        (IF impl = "fetch"
                           THEN <<Message("assistant", OrEmpty(last'.outcome.text),
                                          Undefined, Undefined)>>
                           ELSE ProcessAiResponse(last'.outcome, last'.products).msgs)
                 [] last'.op \in {"toolCall", "toolCallThrew"} ->
                      /\ Len(Appended)
                           = Cardinality({i \in DOMAIN last'.outcome.functionCalls :
                                ValidCall([last'.outcome.functionCalls[i] EXCEPT !.reasoning = "r"],
                                          last'.products)})
                      /\ \A k \in DOMAIN Appended : Appended[k].recommendation # Undefined
                 [] OTHER -> Appended = <<>>]_vars

C29_Witness ==
  /\ mounted
  /\ Len(messages) >= 4
  /\ \E i \in 2..(Len(messages) - 2) :
       /\ messages[i - 1].role = "assistant"
       /\ messages[i].role = "user"
       /\ messages[i + 1].recommendation # Undefined
       /\ messages[i + 1].content = messages[i + 1].reason
       /\ messages[i + 2].content = TurnFallback
  /\ last.op = "failed"
  /\ last.kind = "turn"

\* C30: the busy flag is true exactly while a turn, greeting or user turn,
\* has begun and not completed: from the step that issues its call to the
\* step that settles it.
C30_BusyExactlyWhileInFlight == isTyping <=> calls # {}

\* C31: the frames sent for a session are in capture order, the ones that
\* waited for the session promise included; no frame waits once its session
\* promise has resolved, whether or not a downlink handler is suspended; and
\* a frame captured while every capturing session is connecting or connected
\* is either sent or queued behind the promise in the step that captures it.
C31_UplinkInCaptureOrder ==
  [][/\ \A i, j \in DOMAIN sent' :
          (i < j /\ sent'[i].att = sent'[j].att) => sent'[i].n < sent'[j].n
     /\ \A i \in DOMAIN uplinkQueue' : voice'[uplinkQueue'[i].att].pc # "active"
     /\ (/\ captured' = captured + 1
         /\ \A a \in DOMAIN voice :
              (voice[a].capture /\ voice[a].inputCtx = "running")
                => voice[a].pc \in {"active", "connect"})
          => Len(sent') + Len(uplinkQueue') = Len(sent) + Len(uplinkQueue) + 1]_vars

C31_Witness ==
  /\ Len(sent) = 3
  /\ sent[1].queued
  /\ sent[2].queued
  /\ ~sent[3].queued
  /\ pending # {}

\* The words of a query that are longer than 2 characters, and what one of
\* them is worth for a product.
LongWords(query) ==
  CASE query = "a mic" -> {"mic"}
    [] query = "usb mic" -> {"usb", "mic"}
    [] OTHER -> {}

WordWeight(product, word) ==
  (IF word \in product.name THEN 5 ELSE 0) + (IF word \in product.category THEN 3 ELSE 0)
    + (IF word \in product.features THEN 2 ELSE 0)
    + (IF word \in product.description THEN 1 ELSE 0)

\* C32: the lexical ranker gives every product the sum of the weights of the
\* long words of the query (5 name, 3 category, 2 features, 1 description),
\* returns no product whose score is 0, and returns nothing for a query
\* without a long word.
C32_LexicalWeights ==
  ranking.kind = "lexical" =>
    /\ \A i \in DOMAIN ranking.docs :
         ranking.scores[i]
           = (IF "usb" \in LongWords(ranking.query)
                THEN WordWeight(ranking.docs[i], "usb") ELSE 0)
             + (IF "mic" \in LongWords(ranking.query)
                  THEN WordWeight(ranking.docs[i], "mic") ELSE 0)
    /\ \A k \in DOMAIN ranking.result :
         /\ ranking.result[k].score > 0
         /\ ranking.result[k].score = ranking.scores[ranking.result[k].index]
    /\ LongWords(ranking.query) = {} => ranking.result = <<>>

C32_Witness ==
  /\ ranking.kind = "lexical"
  /\ ranking.query = "usb mic"
  /\ Len(ranking.docs) = 3
  /\ ranking.scores = <<0, 11, 5>>
  /\ Len(ranking.result) = 2
  /\ ranking.result[1].index = 2
  /\ ranking.result[2].index = 3

\* C33: a chunk is started only if no interruption was processed between
\* its arrival and its start, so that nothing that arrived before an
\* interruption plays after it.
C33_NoStaleChunkAfterInterruption ==
  \A i \in DOMAIN scheduled : scheduled[i].after = scheduled[i].epoch

\* C34: no two messages of the session have the same id.
C34_UniqueMessageIds ==
  \A i, j \in DOMAIN messageIds : i # j => messageIds[i] # messageIds[j]

\* C35: a rejected text submission (blank or whitespace-only input, or the busy
\* flag set) changes nothing: the message list, the busy flag, the input text
\* and the mode stay as they were and no model call is issued.
C35_RejectedSubmitChangesNothing ==
  [][((HandleTextSubmit \/ HandleTextSubmitSdk) /\ (Trim(inputText) = "" \/ isTyping))
       => UNCHANGED <<messages, messageIds, isTyping, inputText, mode, calls, issued,
                      chatSessionRef, chatsCreated, greetingCalls>>]_vars

\* A submission was rejected while a call was in flight and typed text was waiting.
C35_Witness ==
  /\ last.op = "submitRejected"
  /\ isTyping
  /\ Trim(inputText) # ""
  /\ calls # {}

====
